---- MODULE Spec2Model ----
(***************************************************************************)
(* Model of the iTalk engine: the ItalkEngine facade of Engine/core.py     *)
(* (user registry, listeners, snapshot file) and the ExtensionManager of   *)
(* Engine/extensions.py (extension records and hook table).                *)
(***************************************************************************)
EXTENDS Integers, Sequences, FiniteSets, TLC

(* ---------------------------------------------------------------------- *)
(* Bounds and input sets                                                   *)
(* ---------------------------------------------------------------------- *)
MaxSubs == 2      \* at most this many engine.on() subscriptions in total
MaxLoads == 3     \* at most this many successful module executions

UserIds == {"u1", "u2"}
Profiles == { <<"Alice", "None">>, <<"Bob", "m1">> }   \* (username, metadata argument)
Contents == {"hi", "bye"}
ExtNames == {"echo", "shared"}     \* names handed to the extension manager

\* a function object: the module it was defined in (__module__), the
\* execution of that module that created it, and its name
Fn(mod, gen, name) == [kind |-> "function", mod |-> mod, gen |-> gen, name |-> name]

Callbacks == {Fn("app", 0, "cbA"), Fn("app", 0, "cbB")}   \* directly subscribed callables
RaisingCallbacks == {Fn("app", 0, "cbB")}                 \* the ones whose body raises an Exception

(* ---------------------------------------------------------------------- *)
(* State                                                                   *)
(* ---------------------------------------------------------------------- *)
VARIABLES
    users,       \* ItalkEngine.users: dict id -> User object
    groups,      \* ItalkEngine.groups: dict name -> set of member ids
    nextOid,     \* identity of the next User object to be constructed
    listeners,   \* ItalkEngine.listeners: event name -> list of callbacks
    disk,        \* content of the file at state_path
    extensions,  \* ExtensionManager.extensions: dict name -> module
    hooks,       \* ExtensionManager.hooks: hook name -> list of callables
    nextGen,     \* identity of the next module object to be executed
    last,        \* the last call made: operation, arguments and what it returned
    calls,       \* the callbacks that call invoked, in order
    pre,         \* ExtensionManager.hooks as it was before that call
    threads,     \* the connect_user calls in flight: thread -> position and locals
    flight,      \* the call whose callback loop is running, and where the loop is
    config,      \* ItalkEngine.config["extensions"]: list of configured names
    engineExtensions  \* ItalkEngine.extensions: list of the names set up

engineVars == <<users, groups, nextOid, listeners, disk>>
managerVars == <<extensions, hooks, nextGen>>
appVars == <<flight, config, engineExtensions>>
vars == <<users, groups, nextOid, listeners, disk, extensions, hooks, nextGen, last, calls, pre,
          threads, flight, config, engineExtensions>>

(* ---------------------------------------------------------------------- *)
(* Entity model (core.py, class User / Message)                            *)
(* ---------------------------------------------------------------------- *)
\* User.__init__: metadata or {} ; connected starts False
NewUser(oid, id, username, metadata) ==
    [oid |-> oid, id |-> id, username |-> username,
     metadata |-> IF metadata \in {"None", "empty"} THEN "empty" ELSE metadata,
     connected |-> FALSE]

\* Message.__init__: borrows the User object, keeps the content
NewMessage(user, content) ==
    [tag |-> "Message", user |-> user.oid, content |-> content]

None == [tag |-> "None"]
Raised(exc) == [tag |-> "raise", exc |-> exc]
UserRef(user) == [tag |-> "User", oid |-> user.oid]

\* dict update: d[k] = v
Put(d, k, v) == [x \in (DOMAIN d) \cup {k} |-> IF x = k THEN v ELSE d[x]]

(* ---------------------------------------------------------------------- *)
(* Event bus of the facade (core.py, on / emit)                            *)
(* ---------------------------------------------------------------------- *)
EngineEvents == {"on_connect", "on_disconnect", "on_message", "on_error"}
EventArgs == EngineEvents \cup {"on_init", "on_typing"}

Subscribed == Len(listeners["on_connect"]) + Len(listeners["on_disconnect"])
              + Len(listeners["on_message"]) + Len(listeners["on_error"])

\* one invocation of a callback of the facade's listeners
Invocation(event, cb, args) ==
    [event |-> event, cb |-> cb, args |-> args,
     outcome |-> IF cb \in RaisingCallbacks THEN "raised" ELSE "returned"]

EmitStopsAtRaise(ls, event, args) ==
    LET l == IF event \in DOMAIN ls THEN ls[event] ELSE <<>>
        firstBad == {i \in 1..Len(l) : l[i] \in RaisingCallbacks}
        n == IF firstBad = {} THEN Len(l)
             ELSE CHOOSE i \in firstBad : \A j \in firstBad : i <= j
    IN  [i \in 1..n |-> Invocation(event, l[i], args)]

\* emit: every callback of listeners.get(event, []), in list order; an
\* Exception raised by one is logged and the loop goes on
emit(ls, event, args) ==
    LET l == IF event \in DOMAIN ls THEN ls[event] ELSE <<>>
    IN  [i \in 1..Len(l) |-> Invocation(event, l[i], args)]

(* ---------------------------------------------------------------------- *)
(* State store (core.py, save_state)                                       *)
(* ---------------------------------------------------------------------- *)
Absent == [tag |-> "absent"]
Corrupt == [tag |-> "corrupt"]
SaveOutcomes == {"written", "failed"}

\* the data dictionary save_state builds
Snapshot(us, gs) ==
    [tag |-> "snapshot",
     users |-> [id \in DOMAIN us |->
                  [id |-> us[id].id, username |-> us[id].username,
                   metadata |-> us[id].metadata, connected |-> us[id].connected]],
     groups |-> [g \in DOMAIN gs |-> [name |-> g, members |-> gs[g]]]]

SaveSkipped(d, us, gs, outcome) == d

\* save_state: open(path, "w") truncates the file and json.dump fills it; an
\* Exception on the way is logged and swallowed, and leaves no readable snapshot
save_state(d, us, gs, outcome) ==
    IF outcome = "written" THEN Snapshot(us, gs) ELSE Corrupt

(* ---------------------------------------------------------------------- *)
(* Facade operations (core.py)                                             *)
(* ---------------------------------------------------------------------- *)
Call(op, args, ret) == [op |-> op, args |-> args, ret |-> ret]

RegisterOverwrites(us, id) == FALSE

\* register_user: if user_id in self.users: raise ValueError
RegisterRejects(us, id) == id \in DOMAIN us

register_user(id, username, metadata, outcome) ==
    /\ IF RegisterRejects(users, id)
       THEN /\ last' = Call("register_user", <<id, username, metadata>>, Raised("ValueError"))
            /\ UNCHANGED <<users, nextOid, disk>>
       ELSE LET user == NewUser(nextOid, id, username, metadata) IN
            /\ users' = Put(users, id, user)
            /\ nextOid' = nextOid + 1
            /\ disk' = save_state(disk, users', groups, outcome)
            /\ last' = Call("register_user", <<id, username, metadata>>, UserRef(user))
    /\ calls' = <<>>
    /\ pre' = hooks
    /\ UNCHANGED <<groups, listeners, managerVars, threads, appVars>>

UpsertReplaces(us, id, username, metadata, oid) ==
    NewUser(oid, id, username, metadata)

\* connect_user: user = self.users.get(user_id); if not user: user = User(...)
Upsert(us, id, username, metadata, oid) ==
    IF id \in DOMAIN us THEN us[id] ELSE NewUser(oid, id, username, metadata)

connect_user(id, username, metadata, outcome) ==
    LET found == Upsert(users, id, username, metadata, nextOid)
        user == [found EXCEPT !.connected = TRUE] IN
    /\ users' = Put(users, id, user)
    /\ nextOid' = IF found.oid = nextOid THEN nextOid + 1 ELSE nextOid
    /\ calls' = emit(listeners, "on_connect", <<UserRef(user)>>)
    /\ disk' = save_state(disk, users', groups, outcome)
    /\ last' = Call("connect_user", <<id, username, metadata>>, UserRef(user))
    /\ pre' = hooks
    /\ UNCHANGED <<groups, listeners, managerVars, threads, appVars>>

\* disconnect_user: if user: (any known user, connected or not)
DisconnectActs(us, id) == id \in DOMAIN us

disconnect_user(id, outcome) ==
    /\ IF DisconnectActs(users, id)
       THEN LET user == [users[id] EXCEPT !.connected = FALSE] IN
            /\ users' = Put(users, id, user)
            /\ calls' = emit(listeners, "on_disconnect", <<UserRef(user)>>)
            /\ disk' = save_state(disk, users', groups, outcome)
       ELSE /\ calls' = <<>>
            /\ UNCHANGED <<users, disk>>
    /\ last' = Call("disconnect_user", <<id>>, None)
    /\ pre' = hooks
    /\ UNCHANGED <<groups, nextOid, listeners, managerVars, threads, appVars>>

CanSendIfKnown(us, id) == id \in DOMAIN us

\* send_message: if not user or not user.connected: return None
CanSend(us, id) == id \in DOMAIN us /\ us[id].connected

send_message(id, content, outcome) ==
    /\ IF CanSend(users, id)
       THEN LET msg == NewMessage(users[id], content) IN
            /\ calls' = emit(listeners, "on_message", <<UserRef(users[id]), msg>>)
            /\ disk' = save_state(disk, users, groups, outcome)
            /\ last' = Call("send_message", <<id, content>>, msg)
       ELSE /\ calls' = <<>>
            /\ last' = Call("send_message", <<id, content>>, None)
            /\ UNCHANGED disk
    /\ pre' = hooks
    /\ UNCHANGED <<users, groups, nextOid, listeners, managerVars, threads, appVars>>

AddListenerAnyEvent(ls, event, cb) ==
    Put(ls, event, Append(IF event \in DOMAIN ls THEN ls[event] ELSE <<>>, cb))

\* on: if event_name in self.listeners: append, else only log a warning
AddListener(ls, event, cb) ==
    IF event \in DOMAIN ls THEN [ls EXCEPT ![event] = Append(@, cb)] ELSE ls

\* on: append when the event name is a key of listeners, else log a warning
on(event, cb) ==
    /\ Subscribed < MaxSubs
    /\ listeners' = AddListener(listeners, event, cb)
    /\ last' = Call("on", <<event, cb.name>>, None)
    /\ calls' = <<>>
    /\ pre' = hooks
    /\ UNCHANGED <<users, groups, nextOid, disk, managerVars, threads, appVars>>

(* ---------------------------------------------------------------------- *)
(* Extension manager (extensions.py)                                       *)
(* ---------------------------------------------------------------------- *)
HookNames == {"on_init", "on_connect", "on_disconnect", "on_message", "on_error"}

\* what <extensions_folder>/<name>.py holds when load_extension looks at it:
\* for each hook name, whether the module defines a function of that name
\* ("def"), binds a function imported from the module helpers ("imported"),
\* binds something that is not callable ("data"), or has no such attribute
File(exists, throws, defs, imported, data) ==
    [exists |-> exists, throws |-> throws,
     exports |-> [h \in HookNames |->
                    IF h \in defs THEN "def"
                    ELSE IF h \in imported THEN "imported"
                    ELSE IF h \in data THEN "data" ELSE "none"]]

\* a module that binds on_connect to a function imported from the module
\* faulty, whose body raises an Exception whenever it is called
FaultyFile ==
    [File(TRUE, FALSE, {"on_message"}, {}, {}) EXCEPT !.exports["on_connect"] = "faulty"]

NoFile == File(FALSE, FALSE, {}, {}, {})
Files == { NoFile,
           File(TRUE, FALSE, {"on_message"}, {}, {}),
           File(TRUE, FALSE, {"on_init", "on_connect", "on_disconnect"}, {}, {"on_error"}),
           File(TRUE, FALSE, {}, {"on_message"}, {}),
           File(TRUE, TRUE, {"on_message"}, {}, {}),
           FaultyFile }

NoAttr == [kind |-> "missing", mod |-> "", gen |-> 0, name |-> ""]
Data == [kind |-> "data", mod |-> "", gen |-> 0, name |-> ""]

\* module_from_spec + exec_module: a fresh module named name, whose own
\* functions are fresh objects with __module__ = name
ExecModule(name, file, gen) ==
    [name |-> name, gen |-> gen,
     attrs |-> [h \in HookNames |->
                  CASE file.exports[h] = "def" -> Fn(name, gen, h)
                    [] file.exports[h] = "imported" -> Fn("helpers", 0, h)
                    [] file.exports[h] = "faulty" -> Fn("faulty", 0, h)
                    [] file.exports[h] = "data" -> Data
                    [] OTHER -> NoAttr]]

Callable(attr) == attr.kind = "function"

Manager == [extensions |-> extensions, hooks |-> hooks, nextGen |-> nextGen]

\* load_extension: no file, or an exception while executing the module, leaves
\* everything as it was (a path ending in .py always yields a spec and a loader); otherwise the
\* module is recorded under name and each callable attribute named like a
\* hook is appended to that hook's list
LoadExt(m, name, file) ==
    IF ~file.exists \/ file.throws THEN m
    ELSE LET module == ExecModule(name, file, m.nextGen) IN
         [extensions |-> Put(m.extensions, name, module),
          hooks |-> [h \in HookNames |->
                       IF Callable(module.attrs[h])
                       THEN Append(m.hooks[h], module.attrs[h])
                       ELSE m.hooks[h]],
          nextGen |-> m.nextGen + 1]

KeptByIdentity(f, module) == \A h \in HookNames : f # module.attrs[h]

\* unload_extension keeps f when f.__module__ != module.__name__
Kept(f, module) == f.mod # module.name

UnloadExt(m, name) ==
    IF name \notin DOMAIN m.extensions THEN m
    ELSE LET module == m.extensions[name] IN
         [extensions |-> [n \in (DOMAIN m.extensions) \ {name} |-> m.extensions[n]],
          hooks |-> [h \in HookNames |->
                       SelectSeq(m.hooks[h], LAMBDA f : Kept(f, module))],
          nextGen |-> m.nextGen]

\* reload_extension: unload, then load
ReloadExt(m, name, file) == LoadExt(UnloadExt(m, name), name, file)

RECURSIVE LoadEachStopsAtFailure(_, _, _)
LoadEachStopsAtFailure(m, names, dir) ==
    IF names = <<>> \/ ~dir[Head(names)].exists \/ dir[Head(names)].throws THEN m
    ELSE LoadEachStopsAtFailure(LoadExt(m, Head(names), dir[Head(names)]), Tail(names), dir)

\* the loop of load_extensions over the configured names
RECURSIVE LoadEach(_, _, _)
LoadEach(m, names, dir) ==
    IF names = <<>> THEN m
    ELSE LoadEach(LoadExt(m, Head(names), dir[Head(names)]), Tail(names), dir)

RaisingHook(f) == f.mod = "faulty"

\* one invocation of a function of the manager's hook table
HookInvocation(hook, f, args) ==
    [event |-> hook, cb |-> f, args |-> <<"engine">> \o args,
     outcome |-> IF RaisingHook(f) THEN "raised" ELSE "returned"]

CallHookStopsAtRaise(hs, hook, args) ==
    IF hook \notin DOMAIN hs THEN <<>>
    ELSE LET l == hs[hook]
             bad == {i \in 1..Len(l) : RaisingHook(l[i])}
             n == IF bad = {} THEN Len(l) ELSE CHOOSE i \in bad : \A j \in bad : i <= j
         IN  [i \in 1..n |-> HookInvocation(hook, l[i], args)]

\* call_hook: every function of hooks[hook_name], in list order, called with
\* the engine first; an Exception raised by one is logged and the loop goes
\* on; an unknown hook name is logged
CallHookOn(hs, hook, args) ==
    IF hook \notin DOMAIN hs THEN <<>>
    ELSE [i \in 1..Len(hs[hook]) |-> HookInvocation(hook, hs[hook][i], args)]

\* what the manager writes to its log for one load / unload
LoadLog(m, name, file) ==
    IF ~file.exists THEN "not_found"
    ELSE IF file.throws THEN "load_error" ELSE "loaded"

UnloadLog(m, name) ==
    IF name \notin DOMAIN m.extensions THEN "not_loaded" ELSE "unloaded"

\* a call of the manager: as Call, with the lines it logged
Logged(op, args, ret, log) == [op |-> op, args |-> args, ret |-> ret, log |-> log]

SetManager(m) ==
    /\ extensions' = m.extensions
    /\ hooks' = m.hooks
    /\ nextGen' = m.nextGen

load_extension(name, file) ==
    /\ nextGen <= MaxLoads
    /\ SetManager(LoadExt(Manager, name, file))
    /\ last' = Logged("load_extension", <<name>>, None, <<LoadLog(Manager, name, file)>>)
    /\ calls' = <<>>
    /\ pre' = hooks
    /\ UNCHANGED <<engineVars, threads, appVars>>

unload_extension(name) ==
    /\ SetManager(UnloadExt(Manager, name))
    /\ last' = Logged("unload_extension", <<name>>, None, <<UnloadLog(Manager, name)>>)
    /\ calls' = <<>>
    /\ pre' = hooks
    /\ UNCHANGED <<engineVars, threads, appVars>>

reload_extension(name, file) ==
    /\ nextGen <= MaxLoads
    /\ SetManager(ReloadExt(Manager, name, file))
    /\ last' = Logged("reload_extension", <<name>>, None,
                       <<UnloadLog(Manager, name), LoadLog(UnloadExt(Manager, name), name, file)>>)
    /\ calls' = <<>>
    /\ pre' = hooks
    /\ UNCHANGED <<engineVars, threads, appVars>>

\* load_extensions: the names of the config file, each loaded in turn, then on_init
load_extensions(names, dir) ==
    /\ nextGen + Len(names) <= MaxLoads + 1
    /\ SetManager(LoadEach(Manager, names, dir))
    /\ last' = Logged("load_extensions", names, None,
                       [i \in 1..Len(names) |-> LoadLog(Manager, names[i], dir[names[i]])])
    /\ calls' = CallHookOn(hooks', "on_init", <<>>)
    /\ pre' = hooks
    /\ UNCHANGED <<engineVars, threads, appVars>>

call_hook(hook) ==
    /\ calls' = CallHookOn(hooks, hook, <<>>)
    /\ last' = Call("call_hook", <<hook>>, None)
    /\ pre' = hooks
    /\ UNCHANGED <<engineVars, managerVars, threads, appVars>>

\* the request threads of the web server and a thread that is in no call
Threads == {"t1", "t2"}
Idle == [pc |-> "idle", id |-> "", username |-> "", metadata |-> "", user |-> 0,
         made |-> None, fired |-> 0, ret |-> None]

\* no callback loop is running
NoFlight == [phase |-> "idle", bus |-> "", op |-> "", event |-> "", args |-> <<>>,
             user |-> 0, i |-> 0,
             running |-> FALSE, began |-> <<>>, invoked |-> <<>>]

(* ---------------------------------------------------------------------- *)
(* Specifications                                                          *)
(* ---------------------------------------------------------------------- *)

\* ItalkEngine() and ExtensionManager(engine) on a first run: no config file,
\* no snapshot file, nothing subscribed or loaded yet
Init ==
    /\ users = <<>>
    /\ groups = <<>>
    /\ nextOid = 1
    /\ listeners = [e \in EngineEvents |-> <<>>]
    /\ disk = Absent
    /\ extensions = <<>>
    /\ hooks = [h \in HookNames |-> <<>>]
    /\ nextGen = 1
    /\ last = Call("__init__", <<>>, None)
    /\ calls = <<>>
    /\ pre = [h \in HookNames |-> <<>>]
    /\ threads = [t \in Threads |-> Idle]
    /\ flight = NoFlight
    /\ config = <<>>
    /\ engineExtensions = <<>>

Register == \E id \in UserIds, p \in Profiles, o \in SaveOutcomes : register_user(id, p[1], p[2], o)
Connect == \E id \in UserIds, p \in Profiles, o \in SaveOutcomes : connect_user(id, p[1], p[2], o)
Disconnect == \E id \in UserIds, o \in SaveOutcomes : disconnect_user(id, o)
Send == \E id \in UserIds, c \in Contents, o \in SaveOutcomes : send_message(id, c, o)
Subscribe == \E e \in EventArgs, cb \in Callbacks : on(e, cb)

Next == Register \/ Connect \/ Disconnect \/ Send \/ Subscribe

Spec == Init /\ [][Next]_vars

\* the extension manager alone
ConfigLists == {<<>>} \cup {<<n>> : n \in ExtNames}
               \cup {ns \in {<<n, k>> : n \in ExtNames, k \in ExtNames} : ns[1] # ns[2]}

Load == \E n \in ExtNames, f \in Files : load_extension(n, f)
Unload == \E n \in ExtNames : unload_extension(n)
Reload == \E n \in ExtNames, f \in Files : reload_extension(n, f)
LoadAll == \E ns \in ConfigLists, dir \in [ExtNames -> Files] : load_extensions(ns, dir)
Publish == \E h \in HookNames \cup {"on_typing"} : call_hook(h)

NextExt == Load \/ Unload \/ Reload \/ LoadAll \/ Publish

SpecExt == Init /\ [][NextExt]_vars

\* the facade and the extension manager side by side, as api.py and a host
\* program that builds an ExtensionManager(engine) would drive them
AppUser == "u1"
AppExt == "echo"
AppFiles == {f \in Files : f.exists /\ ~f.throws /\ f.exports["on_message"] # "imported"}

AppConnect == \E p \in Profiles : connect_user(AppUser, p[1], p[2], "written")
AppDisconnect == disconnect_user(AppUser, "written")
AppSend == \E c \in Contents : send_message(AppUser, c, "written")
AppSubscribe == \E e \in {"on_connect", "on_message"}, cb \in Callbacks : on(e, cb)
AppLoad == \E f \in AppFiles : load_extension(AppExt, f)
AppUnload == unload_extension(AppExt)
AppPublish == \E h \in {"on_connect", "on_message"} : call_hook(h)

NextApp == AppConnect \/ AppDisconnect \/ AppSend \/ AppSubscribe \/ AppLoad \/ AppUnload \/ AppPublish

SpecApp == Init /\ [][NextApp]_vars

(* ---------------------------------------------------------------------- *)
(* Properties of the facade                                                *)
(* ---------------------------------------------------------------------- *)
Known(id) == id \in DOMAIN users
Connected(id) == Known(id) /\ users[id].connected

\* the invocations a dispatch to the list l with arguments args must produce:
\* each entry of l once, in list order
InOrder(cs, l, args) ==
    /\ Len(cs) = Len(l)
    /\ \A i \in 1..Len(l) : cs[i].cb = l[i] /\ cs[i].args = args

\* C1: send_message for an id that is unknown or not connected returns no
\* Message, invokes no callback and leaves the user registry as it was.
C1_RejectedSend ==
    [][\A id \in UserIds :
         (last'.op = "send_message" /\ last'.args[1] = id /\ ~Connected(id))
         => /\ last'.ret = None
            /\ calls' = <<>>
            /\ users' = users]_vars

C1_Witness ==
    /\ last.op = "send_message"
    /\ last.ret = None
    /\ Known(last.args[1])
    /\ ~users[last.args[1]].connected
    /\ listeners["on_message"] # <<>>

\* C2: disconnect_user leaves the user disconnected; for an unknown or already
\* disconnected id it changes no user and invokes no on_disconnect callback.
C2_DisconnectIdempotent ==
    [][\A id \in UserIds :
         (last'.op = "disconnect_user" /\ last'.args[1] = id)
         => /\ id \in DOMAIN users' => ~users'[id].connected
            /\ ~Connected(id) => (calls' = <<>> /\ users' = users)]_vars

\* C3: register_user with an id already in the registry raises the duplicate
\* error and leaves every user and the snapshot file as they were.
C3_DuplicateRegister ==
    [][\A id \in UserIds :
         (last'.op = "register_user" /\ last'.args[1] = id /\ Known(id))
         => /\ last'.ret = Raised("ValueError")
            /\ users' = users
            /\ disk' = disk
            /\ calls' = <<>>]_vars

C3_Witness ==
    /\ last.op = "register_user"
    /\ last.ret = Raised("ValueError")
    /\ users[last.args[1]].connected
    /\ users[last.args[1]].username # last.args[2]
    /\ Cardinality(DOMAIN users) = 2

\* C4: connect_user always returns a User; on return the registry holds that
\* User under id, connected, under no other id; every on_connect callback was
\* invoked once, in order, with that User; a known id keeps its User object.
C4_ConnectUpserts ==
    [][\A id \in UserIds :
         (last'.op = "connect_user" /\ last'.args[1] = id)
         => /\ last'.ret.tag = "User"
            /\ id \in DOMAIN users'
            /\ users'[id].connected
            /\ users'[id].id = id
            /\ users'[id].oid = last'.ret.oid
            /\ \A other \in (DOMAIN users') \ {id} :
                 /\ users'[other].oid # users'[id].oid
                 /\ users'[other] = users[other]
            /\ InOrder(calls', listeners["on_connect"], <<last'.ret>>)
            /\ Known(id) => users' = [users EXCEPT ![id].connected = TRUE]]_vars

C4_Witness ==
    /\ last.op = "connect_user"
    /\ Len(calls) = 2
    /\ calls[1].cb # calls[2].cb
    /\ users[last.args[1]].username # last.args[2]

\* C5: send_message for a connected user returns a Message of that user with
\* the given content, invokes every on_message callback once, in registration
\* order, with (user, message), and changes no user.
C5_AcceptedSend ==
    [][\A id \in UserIds :
         (last'.op = "send_message" /\ last'.args[1] = id /\ Connected(id))
         => /\ last'.ret.tag = "Message"
            /\ last'.ret.user = users[id].oid
            /\ last'.ret.content = last'.args[2]
            /\ InOrder(calls', listeners["on_message"],
                       <<[tag |-> "User", oid |-> users[id].oid], last'.ret>>)
            /\ users' = users]_vars

C5_Witness ==
    /\ last.op = "send_message"
    /\ last.ret.tag = "Message"
    /\ last.ret.content = "bye"
    /\ Len(calls) = 2
    /\ calls[1].outcome = "raised"
    /\ calls[2].outcome = "returned"

(* ---------------------------------------------------------------------- *)
(* Properties of the extension manager                                     *)
(* ---------------------------------------------------------------------- *)
Loaded(n) == n \in DOMAIN extensions

\* how many entries of the list l are the object f
Count(l, f) == Cardinality({i \in 1..Len(l) : l[i] = f})

\* how many extension records of exts hold f as their attribute h
Binders(exts, h, f) == Cardinality({k \in DOMAIN exts : exts[k].attrs[h] = f})

Invoked(cs, f) == \E j \in 1..Len(cs) : cs[j].cb = f

\* C6: a facade operation that succeeds invokes every hook that the extension
\* manager holds for its event: send_message those of on_message, connect_user
\* those of on_connect, disconnect_user those of on_disconnect.
C6_FacadeReachesHooks ==
    [][/\ (last'.op = "send_message" /\ Connected(last'.args[1]))
          => \A i \in 1..Len(hooks["on_message"]) : Invoked(calls', hooks["on_message"][i])
       /\ (last'.op = "connect_user")
          => \A i \in 1..Len(hooks["on_connect"]) : Invoked(calls', hooks["on_connect"][i])
       /\ (last'.op = "disconnect_user" /\ Connected(last'.args[1]))
          => \A i \in 1..Len(hooks["on_disconnect"]) : Invoked(calls', hooks["on_disconnect"][i])
      ]_vars

\* C7: when load_extension(n) has bound a callable on_message of the module and
\* unload_extension(n) follows, the on_message list is again what it was before
\* the load and n has no record.
C7_LoadUnloadRestores ==
    [][\A n \in ExtNames :
         (/\ last.op = "load_extension" /\ last.args[1] = n
          /\ Loaded(n)
          /\ Callable(extensions[n].attrs["on_message"])
          /\ hooks["on_message"] = Append(pre["on_message"], extensions[n].attrs["on_message"])
          /\ last'.op = "unload_extension" /\ last'.args[1] = n)
         => /\ hooks'["on_message"] = pre["on_message"]
            /\ n \notin DOMAIN extensions']_vars

\* C8: unload_extension(n) of a loaded n deletes the record of n only, takes
\* the callables that the record of n bound out of the hook table, and keeps
\* the callables bound by the other records, in their order.
C8_UnloadExact ==
    [][\A n \in ExtNames :
         (last'.op = "unload_extension" /\ last'.args[1] = n /\ Loaded(n))
         => LET mine == extensions[n].attrs
                others == [k \in (DOMAIN extensions) \ {n} |-> extensions[k]]
                OfOthers(h, f) == Binders(others, h, f) > 0 /\ f # mine[h]
            IN  /\ extensions' = others
                /\ \A h \in HookNames :
                     /\ (Callable(mine[h]) /\ Binders(others, h, mine[h]) = 0)
                        => Count(hooks'[h], mine[h]) = 0
                     /\ SelectSeq(hooks'[h], LAMBDA f : OfOthers(h, f))
                        = SelectSeq(hooks[h], LAMBDA f : OfOthers(h, f))]_vars

\* C9: when reload_extension(n) has loaded n and a second reload_extension(n)
\* loads it again, n has a record and every callable hook of that record is in
\* its hook list once for each record that binds it, never more.
C9_ReloadTwice ==
    [][\A n \in ExtNames :
         (/\ last.op = "reload_extension" /\ last.args[1] = n /\ Loaded(n)
          /\ last'.op = "reload_extension" /\ last'.args[1] = n
          /\ nextGen' = nextGen + 1)
         => /\ n \in DOMAIN extensions'
            /\ \A h \in HookNames :
                 LET f == extensions'[n].attrs[h] IN
                 Callable(f) => Count(hooks'[h], f) = Binders(extensions', h, f)]_vars

\* C10: the hook table never holds a callable more often than there are
\* current extension records that bind it under that hook (none when no record
\* does), and call_hook invokes no callable more often than that.
C10_NoStaleHooks ==
    \A h \in HookNames :
      /\ \A i \in 1..Len(hooks[h]) :
           Count(hooks[h], hooks[h][i]) <= Binders(extensions, h, hooks[h][i])
      /\ (last.op = "call_hook" /\ last.args[1] = h)
         => \A j \in 1..Len(calls) :
              Cardinality({i \in 1..Len(calls) : calls[i].cb = calls[j].cb})
                <= Binders(extensions, h, calls[j].cb)

(* ---------------------------------------------------------------------- *)
(* Properties of the two event buses                                       *)
(* ---------------------------------------------------------------------- *)
\* the dispatch of event ev to the list l: one invocation per entry, in list
\* order, all of them for ev
Dispatched(cs, l, ev) ==
    /\ Len(cs) = Len(l)
    /\ \A i \in 1..Len(l) : cs[i].cb = l[i] /\ cs[i].event = ev

\* C11: a publish (emit inside a facade operation, call_hook of the manager)
\* invokes every callback of the event's list once, in list order, those after
\* a raising callback included; nothing is published for another event and the
\* caller gets its normal result, not an exception.
C11_PublishIsolates ==
    [][/\ (last'.op = "connect_user")
          => /\ Dispatched(calls', listeners["on_connect"], "on_connect")
             /\ last'.ret.tag = "User"
       /\ (last'.op = "disconnect_user" /\ Known(last'.args[1]))
          => /\ Dispatched(calls', listeners["on_disconnect"], "on_disconnect")
             /\ last'.ret = None
       /\ (last'.op = "send_message" /\ Connected(last'.args[1]))
          => /\ Dispatched(calls', listeners["on_message"], "on_message")
             /\ last'.ret.tag = "Message"
       /\ (last'.op = "call_hook" /\ last'.args[1] \in HookNames)
          => /\ Dispatched(calls', hooks[last'.args[1]], last'.args[1])
             /\ last'.ret = None
      ]_vars

C11_Witness ==
    /\ last.op = "call_hook"
    /\ Len(calls) = 2
    /\ calls[1].outcome = "raised"
    /\ calls[2].outcome = "returned"

\* the callable that a recorded call of on() was given
CallbackNamed(name) == CHOOSE cb \in Callbacks : cb.name = name

\* C12: on(event, callback) appends the callback to the event's list for each
\* of on_init, on_connect, on_disconnect, on_message and on_error.
C12_SubscribeAllFive ==
    [][(last'.op = "on" /\ last'.args[1] \in HookNames)
       => /\ last'.args[1] \in DOMAIN listeners'
          /\ last'.args[1] \in DOMAIN listeners
          /\ listeners'[last'.args[1]]
               = Append(listeners[last'.args[1]], CallbackNamed(last'.args[2]))]_vars

\* C13: on(event, callback) with an event name outside the five returns
\* normally and leaves the listeners as they were: no new key, no list longer.
C13_UnknownEventRejected ==
    [][(last'.op = "on" /\ last'.args[1] \notin HookNames)
       => /\ last'.ret = None
          /\ listeners' = listeners
          /\ DOMAIN listeners' = EngineEvents]_vars

C13_Witness ==
    /\ last.op = "on"
    /\ last.args[1] = "on_typing"
    /\ Subscribed > 0

(* ---------------------------------------------------------------------- *)
(* State store: groups, save_state and load_state called by the            *)
(* application (core.py)                                                   *)
(* ---------------------------------------------------------------------- *)
MaxObjects == 5

GroupNames == {"g1"}
\* the id of a User object that was never put in engine.users
Ghost == "ghost"

\* engine.groups.setdefault(g, Group(g)).add_member(user): members[user.id] = user
AddMember(gs, g, id) ==
    Put(gs, g, (IF g \in DOMAIN gs THEN gs[g] ELSE {}) \cup {id})

add_member(g, id) ==
    /\ groups' = AddMember(groups, g, id)
    /\ last' = Call("add_member", <<g, id>>, None)
    /\ calls' = <<>>
    /\ pre' = hooks
    /\ UNCHANGED <<users, nextOid, listeners, disk, managerVars, threads, appVars>>

\* a snapshot in which one record lacks a required key ("id" or "username" of
\* a user, "name" or "members" of a group); after = the records of that list
\* that come before it
Damaged(file, at, after) ==
    [tag |-> "damaged", users |-> file.users, groups |-> file.groups,
     at |-> at, after |-> after]

\* the files load_state(filepath) can be pointed at: the state file, a path
\* without a file, a file that is not JSON, a copy with a damaged record
FilesAt(d) ==
    {d, Absent, Corrupt}
    \cup (IF d.tag = "snapshot"
          THEN {Damaged(d, "users", S) : S \in SUBSET DOMAIN d.users}
               \cup {Damaged(d, "groups", G) : G \in SUBSET DOMAIN d.groups}
          ELSE {})

\* user = User(u["id"], u["username"], u.get("metadata", {}))
\* user.connected = u.get("connected", False)
FromRecord(r, oid) ==
    [NewUser(oid, r.id, r.username, r.metadata) EXCEPT !.connected = r.connected]

RECURSIVE LoadUsers(_, _, _)
LoadUsers(recs, ids, oid) ==
    IF ids = {} THEN <<>>
    ELSE LET id == CHOOSE i \in ids : TRUE
         IN  Put(LoadUsers(recs, ids \ {id}, oid + 1), recs[id].id, FromRecord(recs[id], oid))

ResolveMembersAll(ids, us) == ids

\* for user_id in g["members"]: if user_id in self.users: group.add_member(...)
ResolveMembers(ids, us) == ids \cap DOMAIN us

LoadGroups(recs, names, us) ==
    [g \in names |-> ResolveMembers(recs[g].members, us)]

\* load_state on the collections m = [users, groups, nextOid]
LoadState(m, file) ==
    IF file.tag \in {"absent", "corrupt"} THEN m
    ELSE LET ids == IF file.tag = "damaged" /\ file.at = "users"
                    THEN file.after ELSE DOMAIN file.users
             us == LoadUsers(file.users, ids, m.nextOid)
             gs == IF file.tag = "snapshot"
                   THEN LoadGroups(file.groups, DOMAIN file.groups, us)
                   ELSE IF file.at = "users" THEN m.groups
                   ELSE LoadGroups(file.groups, file.after, us)
         IN  [users |-> us, groups |-> gs, nextOid |-> m.nextOid + Cardinality(ids)]

load_state(file) ==
    LET m == LoadState([users |-> users, groups |-> groups, nextOid |-> nextOid], file) IN
    /\ m.nextOid <= MaxObjects + 1
    /\ users' = m.users
    /\ groups' = m.groups
    /\ nextOid' = m.nextOid
    /\ last' = [op |-> "load_state", args |-> <<file.tag>>, ret |-> None, file |-> file]
    /\ calls' = <<>>
    /\ pre' = hooks
    /\ UNCHANGED <<listeners, disk, managerVars, threads, appVars>>

\* engine.save_state() called by the application
save(outcome) ==
    /\ disk' = save_state(disk, users, groups, outcome)
    /\ last' = Call("save_state", <<outcome>>, None)
    /\ calls' = <<>>
    /\ pre' = hooks
    /\ UNCHANGED <<users, groups, nextOid, listeners, managerVars, threads, appVars>>

\* the facade with groups and the store; nothing is subscribed
StoreProfiles == {<<"Alice", "None">>}
StoreRegister ==
    \E id \in UserIds, p \in StoreProfiles, o \in SaveOutcomes :
        nextOid <= MaxObjects /\ register_user(id, p[1], p[2], o)
StoreConnect ==
    \E id \in UserIds, p \in StoreProfiles, o \in SaveOutcomes :
        nextOid <= MaxObjects /\ connect_user(id, p[1], p[2], o)
StoreDisconnect == \E id \in UserIds, o \in SaveOutcomes : disconnect_user(id, o)
StoreSend == \E id \in UserIds, o \in SaveOutcomes : send_message(id, "hi", o)
StoreAddMember == \E g \in GroupNames, id \in UserIds \cup {Ghost} : add_member(g, id)
StoreSave == \E o \in SaveOutcomes : save(o)
StoreLoad == \E f \in FilesAt(disk) : load_state(f)

NextStore ==
    \/ StoreRegister \/ StoreConnect \/ StoreDisconnect \/ StoreSend
    \/ StoreAddMember \/ StoreSave \/ StoreLoad

SpecStore == Init /\ [][NextStore]_vars

FacadeOps == {"register_user", "connect_user", "disconnect_user", "send_message"}

SameUser(u, v) ==
    /\ u.id = v.id
    /\ u.username = v.username
    /\ u.metadata = v.metadata
    /\ u.connected = v.connected

C16_UnreadableLoadsEmpty ==
    [][(last'.op = "load_state" /\ last'.args[1] # "snapshot")
       => /\ last'.ret = None
          /\ users' = <<>>
          /\ groups' = <<>>]_vars

(* ---------------------------------------------------------------------- *)
(* connect_user statement by statement, called from two request threads    *)
(* (core.py:100-110; api.py:129-134 served by a threaded server, no lock)  *)
(* ---------------------------------------------------------------------- *)
At(t, pc) == threads[t].pc = pc
Goto(t, r) == threads' = [threads EXCEPT ![t] = r]

\* a request thread enters connect_user(user_id, username, metadata)
enter_connect(t, id, username, metadata) ==
    /\ At(t, "idle")
    /\ Goto(t, [Idle EXCEPT !.pc = "get", !.id = id, !.username = username,
                            !.metadata = metadata])
    /\ UNCHANGED <<engineVars, managerVars, last, calls, pre, appVars>>

\* user = self.users.get(user_id) ; if not user:
get_user(t) ==
    LET id == threads[t].id
        found == IF id \in DOMAIN users THEN users[id].oid ELSE 0 IN
    /\ At(t, "get")
    /\ Goto(t, [threads[t] EXCEPT !.user = found,
                                  !.pc = IF found = 0 THEN "new" ELSE "set"])
    /\ UNCHANGED <<engineVars, managerVars, last, calls, pre, appVars>>

\* user = User(user_id, username, metadata)
new_user(t) ==
    LET user == NewUser(nextOid, threads[t].id, threads[t].username, threads[t].metadata) IN
    /\ At(t, "new")
    /\ nextOid' = nextOid + 1
    /\ Goto(t, [threads[t] EXCEPT !.user = user.oid, !.made = user, !.pc = "store"])
    /\ UNCHANGED <<users, groups, listeners, disk, managerVars, last, calls, pre, appVars>>

\* self.users[user_id] = user
store_user(t) ==
    /\ At(t, "store")
    /\ users' = Put(users, threads[t].id, threads[t].made)
    /\ Goto(t, [threads[t] EXCEPT !.pc = "set"])
    /\ UNCHANGED <<groups, nextOid, listeners, disk, managerVars, last, calls, pre, appVars>>

\* user.connected = True, on the object the thread holds; the registry shows
\* it when that object is the one registered under the id
set_connected(t) ==
    LET id == threads[t].id IN
    /\ At(t, "set")
    /\ users' = IF id \in DOMAIN users /\ users[id].oid = threads[t].user
                THEN [users EXCEPT ![id].connected = TRUE] ELSE users
    /\ Goto(t, [threads[t] EXCEPT !.pc = "emit"])
    /\ UNCHANGED <<groups, nextOid, listeners, disk, managerVars, last, calls, pre, appVars>>

\* self.emit("on_connect", user)
emit_connect(t) ==
    /\ At(t, "emit")
    /\ calls' = emit(listeners, "on_connect", <<UserRef([oid |-> threads[t].user])>>)
    /\ Goto(t, [threads[t] EXCEPT !.fired = threads[t].user, !.pc = "save"])
    /\ UNCHANGED <<engineVars, managerVars, last, pre, appVars>>

\* self.save_state()
save_connect(t, outcome) ==
    /\ At(t, "save")
    /\ disk' = save_state(disk, users, groups, outcome)
    /\ Goto(t, [threads[t] EXCEPT !.pc = "return"])
    /\ UNCHANGED <<users, groups, nextOid, listeners, managerVars, last, calls, pre, appVars>>

\* return user
return_user(t) ==
    LET ret == UserRef([oid |-> threads[t].user]) IN
    /\ At(t, "return")
    /\ last' = Call("connect_user",
                    <<threads[t].id, threads[t].username, threads[t].metadata>>, ret)
    /\ Goto(t, [threads[t] EXCEPT !.ret = ret, !.pc = "done"])
    /\ UNCHANGED <<engineVars, managerVars, calls, pre, appVars>>

RaceEnter == \E t \in Threads, id \in UserIds, p \in Profiles : enter_connect(t, id, p[1], p[2])
RaceGet == \E t \in Threads : get_user(t)
RaceNew == \E t \in Threads : new_user(t)
RaceStore == \E t \in Threads : store_user(t)
RaceSet == \E t \in Threads : set_connected(t)
RaceEmit == \E t \in Threads : emit_connect(t)
RaceSave == \E t \in Threads, o \in SaveOutcomes : save_connect(t, o)
RaceReturn == \E t \in Threads : return_user(t)

NextRace ==
    \/ RaceEnter \/ RaceGet \/ RaceNew \/ RaceStore
    \/ RaceSet \/ RaceEmit \/ RaceSave \/ RaceReturn

SpecRace == Init /\ [][NextRace]_vars

\* C20: two connect_user calls for the same id that was unknown when they
\* started return the same User, which is the one registered under the id,
\* publish on_connect with it, and only one of them constructed a User.
C20_OneUserPerId ==
    \A t \in Threads, s \in Threads :
        (t # s /\ At(t, "done") /\ At(s, "done") /\ threads[t].id = threads[s].id)
        => /\ threads[t].ret = threads[s].ret
           /\ threads[t].ret.oid = users[threads[t].id].oid
           /\ threads[t].fired = threads[s].fired
           /\ ~(threads[t].made # None /\ threads[s].made # None)

(* ---------------------------------------------------------------------- *)
(* Properties of loading                                                   *)
(* ---------------------------------------------------------------------- *)
\* C17: when the module body raises during load_extension(n), called directly
\* or by reload_extension(n), n has no record afterwards and the hook table
\* holds no function of module n and no callable that the record of n had bound.
C17_FailedLoadLeavesNothing ==
    [][\A n \in ExtNames :
         (/\ last'.op \in {"load_extension", "reload_extension"}
          /\ last'.args[1] = n
          /\ last'.log[Len(last'.log)] = "load_error")
         => /\ n \notin DOMAIN extensions'
            /\ \A h \in HookNames :
                 /\ \A i \in 1..Len(hooks'[h]) : hooks'[h][i].mod # n
                 /\ (/\ Loaded(n)
                     /\ Callable(extensions[n].attrs[h])
                     /\ Binders([k \in (DOMAIN extensions) \ {n} |-> extensions[k]],
                                h, extensions[n].attrs[h]) = 0)
                    => Count(hooks'[h], extensions[n].attrs[h]) = 0]_vars

\* C18: load_extension of a name without a file and unload_extension of a name
\* without a record end in a failure that the caller receives, and change
\* neither the records nor the hook table.
C18_LookupFailuresSurface ==
    [][((last'.op = "load_extension" /\ last'.log = <<"not_found">>)
        \/ (last'.op = "unload_extension" /\ last'.log = <<"not_loaded">>))
       => /\ last'.ret.tag = "raise"
          /\ extensions' = extensions
          /\ hooks' = hooks]_vars

WalkedList ==
    IF flight.bus = "engine" THEN listeners[flight.event] ELSE hooks[flight.event]

Dispatching == flight.phase = "dispatch"
InCallback == Dispatching /\ flight.running

\* connect_user down to its emit("on_connect", user)
begin_connect(id, username, metadata) ==
    LET found == Upsert(users, id, username, metadata, nextOid)
        user == [found EXCEPT !.connected = TRUE] IN
    /\ flight.phase = "idle"
    /\ users' = Put(users, id, user)
    /\ nextOid' = IF found.oid = nextOid THEN nextOid + 1 ELSE nextOid
    /\ flight' = [NoFlight EXCEPT !.phase = "dispatch", !.bus = "engine",
                                  !.op = "connect_user", !.event = "on_connect",
                                  !.args = <<id, username, metadata>>, !.user = user.oid,
                                  !.i = 1, !.began = listeners["on_connect"]]
    /\ UNCHANGED <<groups, listeners, disk, managerVars, last, calls, pre, threads,
                   config, engineExtensions>>

\* call_hook(hook_name) down to its loop
begin_call_hook(hook) ==
    /\ flight.phase = "idle"
    /\ flight' = [NoFlight EXCEPT !.phase = "dispatch", !.bus = "manager",
                                  !.op = "call_hook", !.event = hook, !.args = <<hook>>,
                                  !.i = 1, !.began = hooks[hook]]
    /\ UNCHANGED <<engineVars, managerVars, last, calls, pre, threads, config,
                   engineExtensions>>

\* the loop takes the next element of the list and calls it
next_callback ==
    /\ Dispatching
    /\ ~flight.running
    /\ flight.i <= Len(WalkedList)
    /\ flight' = [flight EXCEPT !.running = TRUE,
                                !.invoked = Append(@, WalkedList[flight.i])]
    /\ UNCHANGED <<engineVars, managerVars, last, calls, pre, threads, config,
                   engineExtensions>>

\* the callback returns, or raises into the except clause of the loop
callback_ends ==
    /\ InCallback
    /\ flight' = [flight EXCEPT !.running = FALSE, !.i = @ + 1]
    /\ UNCHANGED <<engineVars, managerVars, last, calls, pre, threads, config,
                   engineExtensions>>

\* the list is exhausted
end_loop ==
    /\ Dispatching
    /\ ~flight.running
    /\ flight.i > Len(WalkedList)
    /\ flight' = [flight EXCEPT !.phase = IF flight.op = "connect_user"
                                          THEN "save" ELSE "return"]
    /\ UNCHANGED <<engineVars, managerVars, last, calls, pre, threads, config,
                   engineExtensions>>

\* self.save_state(self.state_path) of connect_user
save_flight(outcome) ==
    /\ flight.phase = "save"
    /\ disk' = save_state(disk, users, groups, outcome)
    /\ flight' = [flight EXCEPT !.phase = "return"]
    /\ UNCHANGED <<users, groups, nextOid, listeners, managerVars, last, calls, pre,
                   threads, config, engineExtensions>>

\* return user / the implicit return of call_hook
return_flight ==
    LET ref == UserRef([oid |-> flight.user]) IN
    /\ flight.phase = "return"
    /\ last' = Call(flight.op, flight.args,
                    IF flight.op = "connect_user" THEN ref ELSE None)
    /\ calls' = [k \in 1..Len(flight.invoked) |->
                   IF flight.bus = "engine"
                   THEN Invocation(flight.event, flight.invoked[k], <<ref>>)
                   ELSE HookInvocation(flight.event, flight.invoked[k], <<>>)]
    /\ pre' = hooks
    /\ flight' = NoFlight
    /\ UNCHANGED <<engineVars, managerVars, threads, config, engineExtensions>>

NestBegin == \E p \in StoreProfiles : begin_connect(AppUser, p[1], p[2])
NestPublish == begin_call_hook("on_connect")
NestNext == next_callback
NestEnds == callback_ends
NestEndLoop == end_loop
NestSave == \E o \in SaveOutcomes : save_flight(o)
NestReturn == return_flight
\* calls made between two calls of the engine
IdleSubscribe == flight.phase = "idle" /\ \E cb \in Callbacks : on("on_connect", cb)
IdleLoad == flight.phase = "idle" /\ \E f \in AppFiles : load_extension(AppExt, f)
\* calls made by the callback that is running
NestSubscribe == InCallback /\ \E cb \in Callbacks : on("on_connect", cb)
NestDisconnect == InCallback /\ \E o \in SaveOutcomes : disconnect_user(AppUser, o)
NestLoad == InCallback /\ \E f \in AppFiles : load_extension(AppExt, f)

NextNest ==
    \/ NestBegin \/ NestPublish \/ NestNext \/ NestEnds \/ NestEndLoop
    \/ NestSave \/ NestReturn \/ IdleSubscribe \/ IdleLoad
    \/ NestSubscribe \/ NestDisconnect \/ NestLoad

SpecNest == Init /\ [][NextNest]_vars

\* C21: when the callback loop of one emit or call_hook ends, the callbacks
\* it invoked are those of the list as it was when the loop began, each
\* entry once and in order, whatever was subscribed or loaded meanwhile.
C21_DispatchOverSnapshot ==
    [][(Dispatching /\ flight'.phase # "dispatch")
       => flight.invoked = flight.began]_vars

\* C22: while the callback loop of a facade operation is running, no other
\* facade operation changes the user registry or writes the state file.
C22_NoNestedOperation ==
    [][(Dispatching /\ flight.op = "connect_user" /\ flight'.phase = "dispatch")
       => /\ users' = users
          /\ disk' = disk]_vars

(* ---------------------------------------------------------------------- *)
(* The facade's own extension list, driven by the activate and deactivate  *)
(* routes (core.py:132-150, api.py:171-194)                                *)
(* ---------------------------------------------------------------------- *)
MaxListed == 4

\* what extensions/<name>.py is when load_extensions looks at it: a module
\* with setup(engine), a module without it, a module whose import or setup
\* raises, or no file
SetupKinds == {"setup", "no_setup", "raises", "missing"}
SetupDirs == [ExtNames -> SetupKinds]

\* if os.path.isfile(full_path): mod = __import__(...); if hasattr(mod, "setup"):
\* mod.setup(self); self.extensions.append(name)
Listed(kind) == kind = "setup"

\* ItalkEngine.load_extensions: the loop over config["extensions"]
RECURSIVE SetupEach(_, _, _)
SetupEach(listed, names, dir) ==
    IF names = <<>> THEN listed
    ELSE SetupEach(IF Listed(dir[Head(names)]) THEN Append(listed, Head(names)) ELSE listed,
                   Tail(names), dir)

Range(s) == {s[k] : k \in 1..Len(s)}

\* list.remove(x): drops the first occurrence
RECURSIVE Remove(_, _)
Remove(s, x) ==
    IF s = <<>> THEN <<>>
    ELSE IF Head(s) = x THEN Tail(s) ELSE <<Head(s)>> \o Remove(Tail(s), x)

Http(status) == [tag |-> "http", status |-> status]

\* POST /api/extensions/activate {"name": ext}
activate_extension(ext, dir) ==
    /\ IF ext \notin Range(config)
       THEN /\ config' = Append(config, ext)
            /\ Len(engineExtensions) + Len(config') <= MaxListed
            /\ engineExtensions' = SetupEach(engineExtensions, config', dir)
       ELSE UNCHANGED <<config, engineExtensions>>
    /\ last' = Call("activate_extension", <<ext>>, Http(200))
    /\ calls' = <<>>
    /\ pre' = hooks
    /\ UNCHANGED <<engineVars, managerVars, threads, flight>>

\* POST /api/extensions/deactivate {"name": ext}
deactivate_extension(ext, dir) ==
    /\ IF ext \in Range(config)
       THEN /\ config' = Remove(config, ext)
            /\ Len(engineExtensions) + Len(config') <= MaxListed
            /\ engineExtensions' = SetupEach(engineExtensions, config', dir)
            /\ last' = Call("deactivate_extension", <<ext>>, Http(200))
       ELSE /\ last' = Call("deactivate_extension", <<ext>>, Http(400))
            /\ UNCHANGED <<config, engineExtensions>>
    /\ calls' = <<>>
    /\ pre' = hooks
    /\ UNCHANGED <<engineVars, managerVars, threads, flight>>

Activate == \E ext \in ExtNames, dir \in SetupDirs : activate_extension(ext, dir)
Deactivate == \E ext \in ExtNames, dir \in SetupDirs : deactivate_extension(ext, dir)

NextAdmin == Activate \/ Deactivate

SpecAdmin == Init /\ [][NextAdmin]_vars

\* C23: the list of loaded extensions of the facade names no extension twice
\* and names only extensions that are configured now.
C23_ListedOnceAndConfigured ==
    /\ \A j \in 1..Len(engineExtensions), k \in 1..Len(engineExtensions) :
         engineExtensions[j] = engineExtensions[k] => j = k
    /\ Range(engineExtensions) \subseteq Range(config)

====
